---- MODULE Spec2Model ----
(***************************************************************************)
(* A model of exchange_mail.py: the module globals (_account,              *)
(* _emails_cache), the remote mailbox the commands act on, and one action  *)
(* per command handler (cmd_list, cmd_read, cmd_reply, cmd_mark_read,      *)
(* cmd_archive).  Strings the code inspects (addresses) are sequences of   *)
(* one-character strings; strings it only hashes are TLA+ strings.         *)
(***************************************************************************)
EXTENDS Integers, Sequences, FiniteSets, TLC

VARIABLES env, _account, _emails_cache, mailbox, order, bulk, folders,
          status, ncmds, last

vars == <<env, _account, _emails_cache, mailbox, order, bulk, folders,
          status, ncmds, last>>

(***************************************************************************)
(* Bounds of the model and constants of the program.                       *)
(***************************************************************************)
\* Largest number of distinct unread messages placed in the inbox at start.
MaxInbox == 2
\* Largest number of commands run one after the other on the module globals.
MaxCmds == 2
\* Largest number of per-message operations of one batch that fail.
MaxFail == 1
\* hexdigest()[:8]
IdLen == 8
\* [:50] on the unread listing
ListLimit == 50
\* [:100] on the re-scan
ScanLimit == 100
\* timedelta(days=7) of the re-scan
ScanDays == 7

(***************************************************************************)
(* Python values.                                                          *)
(***************************************************************************)
\* None for the values the model keeps as TLA+ strings.
None == "NoneType"
\* bool(x) of an optional string: None and "" are falsy.
Truthy(x) == x # None /\ x # ""
\* str(x) of an optional string.
str(x) == IF x = None THEN "None" ELSE x
\* s[:n]
Take(s, n) == SubSeq(s, 1, IF Len(s) < n THEN Len(s) ELSE n)

UpperAlpha == <<"A","B","C","D","E","F","G","H","I","J","K","L","M",
                "N","O","P","Q","R","S","T","U","V","W","X","Y","Z">>
LowerAlpha == <<"a","b","c","d","e","f","g","h","i","j","k","l","m",
                "n","o","p","q","r","s","t","u","v","w","x","y","z">>
\* The lower-case letter of every upper-case letter.
LowerMap ==
  [c \in {UpperAlpha[i] : i \in 1..Len(UpperAlpha)} |->
     LowerAlpha[CHOOSE i \in 1..Len(UpperAlpha) : UpperAlpha[i] = c]]
\* str.lower() on one character.
LowerChar(c) == IF c \in DOMAIN LowerMap THEN LowerMap[c] ELSE c
\* str.lower()
Lower(s) == [i \in 1..Len(s) |-> LowerChar(s[i])]
\* str.endswith(suffix)
EndsWith(s, suffix) ==
  /\ Len(suffix) <= Len(s)
  /\ SubSeq(s, Len(s) - Len(suffix) + 1, Len(s)) = suffix
\* c in s
Contains(s, c) == \E i \in 1..Len(s) : s[i] = c
\* s.find(c) as a 1-based index, Len(s)+1 when absent.
IndexOf(s, c) ==
  IF Contains(s, c)
  THEN CHOOSE i \in 1..Len(s) : s[i] = c /\ \A j \in 1..(i-1) : s[j] # c
  ELSE Len(s) + 1
\* s.split('@')[1], for s containing '@'
SplitAt1(s) ==
  LET rest == SubSeq(s, IndexOf(s, "@") + 1, Len(s))
  IN  SubSeq(rest, 1, IndexOf(rest, "@") - 1)
\* x in list
InList(x, list) == \E i \in 1..Len(list) : list[i] = x

(***************************************************************************)
(* hashlib.md5(s.encode()).hexdigest() on the strings the model hashes:    *)
(* the table holds the real digests.  "<m34781@corp.com>" and              *)
(* "<m64387@corp.com>" agree on their first eight hex digits.              *)
(***************************************************************************)
md5_hexdigest(s) ==
  CASE s = "<m34781@corp.com>" ->
       <<"5","6","3","f","d","8","e","6","f","8","2","6","2","5","6","c","0","d","f","8","9","9","9","d","1","0","f","1","4","0","6","3">>
  [] s = "<m64387@corp.com>" ->
       <<"5","6","3","f","d","8","e","6","4","8","5","7","4","f","d","3","2","c","e","d","8","d","1","2","2","d","0","b","f","1","f","e">>
  [] s = "<b2@other.com>" ->
       <<"2","6","6","7","c","0","d","0","c","a","0","d","5","c","e","6","d","3","c","5","9","4","6","5","b","5","d","7","7","d","f","0">>
  [] s = "<digest@lists.other.com>" ->
       <<"a","4","7","8","5","e","4","a","9","0","f","d","1","1","7","b","1","8","f","3","a","7","8","d","2","c","1","1","9","3","f","5">>
  [] s = "AAMkAGI1" ->
       <<"8","5","c","8","d","e","1","2","f","8","f","7","7","c","5","0","c","6","8","c","8","c","6","5","6","f","2","d","b","8","4","5">>
  [] s = "AAMkAGI2" ->
       <<"6","2","c","c","0","5","a","8","3","0","8","c","b","a","c","0","c","6","5","0","9","f","c","b","6","e","0","8","f","2","8","3">>
  [] s = "AAMkAGI3" ->
       <<"9","0","5","3","9","a","0","c","3","e","e","1","3","a","e","4","0","2","e","f","e","b","5","0","b","0","0","4","5","e","4","9">>
  [] s = "AAMkAGI4" ->
       <<"c","b","3","3","7","7","2","0","c","8","5","3","d","7","1","e","6","d","d","4","9","2","f","6","0","f","f","b","7","9","9","f">>
  [] s = "2026-11-02 08:30:00+00:00" ->
       <<"d","1","1","5","3","c","c","e","f","f","7","e","e","2","5","d","7","a","8","0","3","b","b","4","e","0","c","8","d","b","4","0">>
  [] s = "2026-10-30 09:15:00+00:00" ->
       <<"8","c","9","3","6","1","6","b","2","b","a","9","1","f","0","4","d","0","1","7","9","4","e","6","a","3","a","e","f","c","0","4">>
  [] s = "2026-10-20 17:45:00+00:00" ->
       <<"5","5","a","3","e","3","c","a","3","4","4","9","7","3","2","6","3","4","a","3","5","5","5","1","f","5","6","8","7","3","4","6">>
  [] s = "None" ->
       <<"6","a","d","f","9","7","f","8","3","a","c","f","6","4","5","3","d","4","a","6","a","4","b","1","0","7","0","f","3","7","5","4">>

(***************************************************************************)
(* Addresses and message contents the initial states are drawn from.       *)
(***************************************************************************)
user_corp  == <<"u","s","e","r","@","c","o","r","p",".","c","o","m">>
User_Corp  == <<"U","s","e","r","@","C","o","r","p",".","C","O","M">>
peer_corp  == <<"p","e","e","r","@","c","o","r","p",".","c","o","m">>
Peer_CORP  == <<"P","e","e","r","@","C","O","R","P",".","c","o","m">>
team_corp  == <<"t","e","a","m","@","c","o","r","p",".","c","o","m">>
ext_other  == <<"e","x","t","@","o","t","h","e","r",".","c","o","m">>
x_notcorp  == <<"x","@","n","o","t","c","o","r","p",".","c","o","m">>
peer_corp_io == <<"p","e","e","r","@","c","o","r","p",".","c","o","m",".","i","o">>
nodomain   == <<"n","o","d","o","m","a","i","n">>
\* The literal 'Unknown' the code uses for a message without sender.
Unknown    == <<"U","n","k","n","o","w","n">>

\* item.sender: a mailbox object with an optional address, or None.
NoSender == [exists |-> FALSE, email_address |-> <<>>]
Sender(a) == [exists |-> TRUE, email_address |-> a]

\* Received times (newest first): str(datetime_received) and the whole days
\* elapsed since; age 0 is today, after midnight.
TimeSlots ==
  << [str |-> "2026-11-02 08:30:00+00:00", age |-> 0],
     [str |-> "2026-10-30 09:15:00+00:00", age |-> 3],
     [str |-> "2026-10-20 17:45:00+00:00", age |-> 13] >>

\* The identity, sender and recipients of the messages of the session runs.
Content ==
  << [message_id |-> "<m34781@corp.com>", id |-> "AAMkAGI1",
      sender |-> Sender(Peer_CORP),
      to_recipients |-> <<user_corp>>, cc_recipients |-> <<>>],
     [message_id |-> "<m64387@corp.com>", id |-> "AAMkAGI2",
      sender |-> Sender(ext_other),
      to_recipients |-> <<team_corp>>, cc_recipients |-> <<User_Corp>>],
     [message_id |-> None, id |-> "AAMkAGI3",
      sender |-> Sender(x_notcorp),
      to_recipients |-> <<team_corp>>, cc_recipients |-> <<>>] >>

\* A message of the mailbox: the fields of an exchangelib item the code reads
\* or writes, its folder, and its age in days.
Message(c, slot) ==
  [message_id |-> c.message_id, id |-> c.id,
   datetime_received |-> TimeSlots[slot].str, age |-> TimeSlots[slot].age,
   sender |-> c.sender,
   to_recipients |-> c.to_recipients, cc_recipients |-> c.cc_recipients,
   is_read |-> FALSE, folder |-> "Inbox"]

\* The already-read messages of a mailing list that fill the head of the
\* inbox when bulk > 0: handles -1 .. -bulk, newer than every other message.
Filler ==
  [message_id |-> "<digest@lists.other.com>", id |-> "AAMkBulk",
   datetime_received |-> "2026-11-02 09:00:00+00:00", age |-> 0,
   sender |-> Sender(ext_other),
   to_recipients |-> <<team_corp>>, cc_recipients |-> <<>>,
   is_read |-> TRUE, folder |-> "Inbox"]

\* The handle standing for Python's None where an item is expected.
NoItem == 0
\* The item behind a handle.
Msg(h) == IF h < 0 THEN Filler ELSE mailbox[h]

\* _account = None
NoAccount == [open |-> FALSE, primary_smtp_address |-> <<>>, username |-> ""]

(***************************************************************************)
(* os.environ: each setting is set or not, with a value.                   *)
(***************************************************************************)
Required == <<"EXCHANGE_SERVER", "EXCHANGE_EMAIL", "EXCHANGE_USERNAME",
              "EXCHANGE_PASSWORD">>
\* not os.environ.get(name): unset, or set to the empty string.
Unset(name) == ~env[name].set \/ env[name].value = <<>>
\* os.environ.get(name, '')
environ_get(name) == IF env[name].set THEN env[name].value ELSE <<>>

(***************************************************************************)
(* get_account(): returns the cached handle, or validates the settings and *)
(* constructs the Account.  connect_ok says whether Account(...) succeeds. *)
(* The import of exchangelib is taken to succeed.  The result tells the    *)
(* new value of _account, whether sys.exit(1) was called, the names        *)
(* reported missing, and how often Account(...) was called.                *)
(***************************************************************************)
\* A validation that forgets the password.
missing_settings_without_password == SelectSeq(SubSeq(Required, 1, 3), Unset)

\* missing = []; if not server: missing.append('EXCHANGE_SERVER'); ...
missing_settings == SelectSeq(Required, Unset)

get_account(acct, connect_ok) ==
  IF acct.open
  THEN [account |-> acct, exit |-> FALSE, missing |-> <<>>, constructed |-> 0]
  ELSE LET missing == missing_settings
           username ==
             IF ~Unset("EXCHANGE_DOMAIN")
             THEN environ_get("EXCHANGE_DOMAIN") \o <<"\\">>
                    \o environ_get("EXCHANGE_USERNAME")
             ELSE environ_get("EXCHANGE_USERNAME")
       IN  IF missing # <<>>
           THEN [account |-> acct, exit |-> TRUE, missing |-> missing,
                 constructed |-> 0]
           ELSE IF connect_ok
           THEN [account |-> [open |-> TRUE,
                              primary_smtp_address |-> environ_get("EXCHANGE_EMAIL"),
                              username |-> username],
                 exit |-> FALSE, missing |-> <<>>, constructed |-> 1]
           ELSE [account |-> acct, exit |-> TRUE, missing |-> <<>>,
                 constructed |-> 1]

\* get_internal_domain(): '@' + the domain of EXCHANGE_EMAIL, lower-cased,
\* or '' when the address has no '@'.
get_internal_domain ==
  LET email == environ_get("EXCHANGE_EMAIL")
  IN  IF Contains(email, "@") THEN <<"@">> \o Lower(SplitAt1(email)) ELSE <<>>

\* An id derived from the protocol identifier before the message-id header.
generate_email_id_id_first(item) ==
  LET id_source == IF Truthy(item.id) THEN item.id
                   ELSE IF Truthy(item.message_id) THEN item.message_id
                   ELSE str(item.datetime_received)
  IN  SubSeq(md5_hexdigest(id_source), 1, IdLen)

\* generate_email_id(item): the first IdLen hex digits of the MD5 of
\* item.message_id or item.id or str(item.datetime_received).
generate_email_id(item) ==
  LET id_source == IF Truthy(item.message_id) THEN item.message_id
                   ELSE IF Truthy(item.id) THEN item.id
                   ELSE str(item.datetime_received)
  IN  SubSeq(md5_hexdigest(id_source), 1, IdLen)

\* A write that rebinds the cache to the one entry written.
record_forgetting(cache, email_id, item) == [k \in {email_id} |-> item]

\* _emails_cache[email_id] = item
record(cache, email_id, item) ==
  [k \in DOMAIN cache \cup {email_id} |-> IF k = email_id THEN item ELSE cache[k]]

(***************************************************************************)
(* The two inbox queries, as the lists of handles the server returns       *)
(* (newest first) from the mailbox mb.                                     *)
(***************************************************************************)
\* datetime_received >= start_date, for the start date of get_unread_emails:
\* now - days_back days, or today's midnight when days_back is 0.
SinceStart(age, days_back) == IF days_back > 0 THEN age < days_back ELSE age = 0

\* account.inbox.filter(is_read=False, datetime_received__gte=start_date)
\*   .order_by('-datetime_received')[:50]
unread_query(mb, days_back) ==
  LET Sel(h) == /\ mb[h].folder = "Inbox"
                /\ ~mb[h].is_read
                /\ SinceStart(mb[h].age, days_back)
  IN  Take(SelectSeq(order, Sel), ListLimit)

\* A re-scan without the [:100].
recent_query_unlimited(mb) ==
  LET Sel(h) == mb[h].folder = "Inbox" /\ mb[h].age < ScanDays
  IN  [i \in 1..bulk |-> -i] \o SelectSeq(order, Sel)

\* account.inbox.filter(datetime_received__gte=now - 7 days)
\*   .order_by('-datetime_received')[:100]
recent_query(mb) ==
  LET Sel(h) == mb[h].folder = "Inbox" /\ mb[h].age < ScanDays
  IN  Take([i \in 1..bulk |-> -i] \o SelectSeq(order, Sel), ScanLimit)

(***************************************************************************)
(* get_unread_emails(days_back, show_all)                                  *)
(***************************************************************************)
\* [r.email_address.lower() for r in (recipients or []) if r.email_address]
address_list(recipients) ==
  LET Given(a) == a # <<>>
      kept == SelectSeq(recipients, Given)
  IN  [i \in 1..Len(kept) |-> Lower(kept[i])]

\* is_direct of one item
is_direct_of(item, user_email) ==
  InList(user_email,
         address_list(item.to_recipients) \o address_list(item.cc_recipients))

\* sender of one item: its address, or 'Unknown' without sender
sender_of(item) ==
  IF item.sender.exists THEN item.sender.email_address ELSE Unknown

\* A test for the domain anywhere in the sender address.
is_internal_of_anywhere(item, internal_domain) ==
  LET sender == Lower(sender_of(item))
  IN  /\ sender # <<>>
      /\ internal_domain # <<>>
      /\ \E k \in 1..Len(sender) :
            /\ k + Len(internal_domain) - 1 <= Len(sender)
            /\ SubSeq(sender, k, k + Len(internal_domain) - 1) = internal_domain

\* is_internal of one item
is_internal_of(item, internal_domain) ==
  LET sender == sender_of(item)
  IN  IF sender # <<>> /\ internal_domain # <<>>
      THEN EndsWith(Lower(sender), internal_domain)
      ELSE FALSE

\* email_data of one item (the keys the commands use); src is the handle of
\* the item the summary was made from.
email_data(h, user_email, internal_domain) ==
  [id |-> generate_email_id(Msg(h)),
   item_id |-> Msg(h).id,
   message_id |-> Msg(h).message_id,
   sender |-> sender_of(Msg(h)),
   is_internal |-> is_internal_of(Msg(h), internal_domain),
   is_direct |-> is_direct_of(Msg(h), user_email),
   src |-> h]

\* The body of the for loop over the query result: acc holds emails and the
\* cache.
RECURSIVE unread_loop(_, _, _, _, _)
unread_loop(items, show_all, user_email, internal_domain, acc) ==
  IF items = <<>> THEN acc
  ELSE LET h == Head(items)
           e == email_data(h, user_email, internal_domain)
       IN  IF ~show_all /\ ~e.is_direct
           THEN unread_loop(Tail(items), show_all, user_email, internal_domain, acc)
           ELSE unread_loop(Tail(items), show_all, user_email, internal_domain,
                            [emails |-> Append(acc.emails, e),
                             cache |-> record(acc.cache, e.id, h)])

\* The result: whether the process exited in get_account, the new _account,
\* the summaries, the new cache, and the queries and Account(...) calls made.
get_unread_emails(days_back, show_all, cache, acct, mb, connect_ok) ==
  LET ga == get_account(acct, connect_ok)
  IN  IF ga.exit
      THEN [exit |-> TRUE, account |-> ga.account, missing |-> ga.missing,
            emails |-> <<>>, cache |-> cache, queries |-> 0,
            constructed |-> ga.constructed]
      ELSE LET user_email == Lower(ga.account.primary_smtp_address)
               done == unread_loop(unread_query(mb, days_back), show_all, user_email,
                                   get_internal_domain,
                                   [emails |-> <<>>, cache |-> cache])
           IN  [exit |-> FALSE, account |-> ga.account, missing |-> <<>>,
                emails |-> done.emails, cache |-> done.cache, queries |-> 1,
                constructed |-> ga.constructed]

(***************************************************************************)
(* find_email_by_id(email_id)                                              *)
(***************************************************************************)
\* The cache after _emails_cache[generate_email_id(item)] = item for every
\* item of items in order: each derived id ends at the last item deriving it.
\* The writes are taken id by id, which keeps the evaluation shallow.
RECURSIVE record_each(_, _, _)
record_each(cache, ids, items) ==
  IF ids = {} THEN cache
  ELSE LET k == CHOOSE x \in ids : TRUE
           n == CHOOSE i \in 1..Len(items) :
                  /\ generate_email_id(Msg(items[i])) = k
                  /\ \A j \in (i+1)..Len(items) :
                       generate_email_id(Msg(items[j])) # k
       IN  record_each(record(cache, k, items[n]), ids \ {k}, items)

\* The for loop over the re-scan result: every item is recorded until one
\* derives email_id, which is returned.
scan_loop(items, email_id, cache) ==
  LET hits == {i \in 1..Len(items) :
                 generate_email_id(Msg(items[i])) = email_id}
      first == IF hits = {} THEN 0
               ELSE CHOOSE i \in hits : \A j \in hits : i <= j
      scanned == IF first = 0 THEN items ELSE SubSeq(items, 1, first)
      ids == {generate_email_id(Msg(scanned[i])) : i \in 1..Len(scanned)}
  IN  [ret |-> IF first = 0 THEN NoItem ELSE items[first],
       cache |-> record_each(cache, ids, scanned),
       scanned |-> scanned]

\* The result: the item returned (NoItem for None), whether the process
\* exited in get_account, the new _account and cache, and what the call did:
\* get_account calls, Account(...) calls, listing queries, and the items the
\* re-scan went through.
\* The part of find_email_by_id after the cache test: "Search in recent
\* emails".
rescan(email_id, cache, acct, mb, connect_ok) ==
  LET ga == get_account(acct, connect_ok)
  IN  IF ga.exit
      THEN [ret |-> NoItem, exit |-> TRUE, account |-> ga.account,
            missing |-> ga.missing, cache |-> cache,
            account_calls |-> 1,
            constructed |-> ga.constructed, queries |-> 0,
            scanned |-> <<>>]
      ELSE LET done == scan_loop(recent_query(mb), email_id, cache)
           IN  [ret |-> done.ret, exit |-> FALSE, account |-> ga.account,
                missing |-> <<>>, cache |-> done.cache,
                account_calls |-> 1,
                constructed |-> ga.constructed, queries |-> 1,
                scanned |-> done.scanned]

\* A lookup that does not consult the cache.
find_email_by_id_uncached(email_id, cache, acct, mb, connect_ok) ==
  rescan(email_id, cache, acct, mb, connect_ok)

find_email_by_id(email_id, cache, acct, mb, connect_ok) ==
  IF email_id \in DOMAIN cache
  THEN [ret |-> cache[email_id], exit |-> FALSE, account |-> acct,
        missing |-> <<>>, cache |-> cache,
        account_calls |-> 0, constructed |-> 0, queries |-> 0,
        scanned |-> <<>>]
  ELSE rescan(email_id, cache, acct, mb, connect_ok)

(***************************************************************************)
(* What the last command did: its arguments, the summaries it listed and   *)
(* selected, the results of its find_email_by_id calls in order, the items *)
(* its operation (reply, save of is_read, move) completed on, what it      *)
(* printed, and how it ended.                                              *)
(***************************************************************************)
LastBase ==
  [cmd |-> "start", mode |-> "", target |-> <<>>, emails |-> <<>>,
   internal |-> <<>>, external |-> <<>>, selected |-> <<>>,
   lookups |-> <<>>, acted |-> <<>>, count |-> 0, errors |-> 0,
   out |-> "", returned |-> TRUE, exit_code |-> 0, missing |-> <<>>,
   constructed |-> 0, queries |-> 0, created_folder |-> FALSE]

\* The record last.lookups keeps of one find_email_by_id call f made with
\* email_id on the cache before: what was asked, what the cache held for it
\* (NoItem when it was no key), what the call returned and did, and whether
\* it left the cache as it was.
Lookup(email_id, before, f) ==
  [email_id |-> email_id,
   cached |-> IF email_id \in DOMAIN before THEN before[email_id] ELSE NoItem,
   in_cache |-> email_id \in DOMAIN before,
   ret |-> f.ret, exit |-> f.exit,
   account_calls |-> f.account_calls, constructed |-> f.constructed,
   queries |-> f.queries, scanned |-> f.scanned,
   cache_unchanged |-> f.cache = before]

\* A handler that goes on with whatever the lookup returned.
not_item_unchecked(f) == FALSE

\* if not item: print("... not found"); return
not_item(f) == f.ret = NoItem

\* What get_account printed before sys.exit(1).
ExitOut(missing) == IF missing # <<>> THEN "config_error" ELSE "connect_error"

\* [e for e in emails if e['is_internal']]
internal_of(emails) ==
  LET Keep(e) == e.is_internal IN SelectSeq(emails, Keep)
\* A filter on is_direct instead of is_internal.
external_of_not_direct(emails) ==
  LET Keep(e) == ~e.is_direct IN SelectSeq(emails, Keep)

\* [e for e in emails if not e['is_internal']]
external_of(emails) ==
  LET Keep(e) == ~e.is_internal IN SelectSeq(emails, Keep)
\* The filter of the batch modes --external, --internal and --all.
batch_select(emails, mode) ==
  IF mode = "external" THEN external_of(emails)
  ELSE IF mode = "internal" THEN internal_of(emails)
  ELSE emails

\* The values a command line gives --days in the model: today, or a month.
DaysChoices == {0, 30}
\* An id no message derives.
UnknownId == <<"0","0","0","0","0","0","0","0">>
\* The ids a command line names: those of the messages of the mailbox, and
\* one no message derives.
RequestIds == {generate_email_id(mailbox[h]) : h \in DOMAIN mailbox} \cup {UnknownId}
\* Whether Account(...) succeeds matters only while no account is cached.
ConnectChoices == IF _account.open THEN {TRUE} ELSE BOOLEAN
\* The positions at which the per-message operation may fail, among the
\* first n of a loop.
FailChoices(n) ==
  {b \in SUBSET (1..n) : Cardinality(b) <= MaxFail}

\* A command can be run: the process has not exited.
Running == status = "running" /\ ncmds < MaxCmds

(***************************************************************************)
(* cmd_list                                                                *)
(***************************************************************************)
cmd_list(days, show_all, connect_ok) ==
  /\ Running
  /\ ncmds' = ncmds + 1
  /\ \E r \in {get_unread_emails(days, show_all, _emails_cache, _account,
                                  mailbox, connect_ok)} :
         /\ _account' = r.account
         /\ _emails_cache' = r.cache
         /\ status' = IF r.exit THEN "exited" ELSE "running"
         /\ last' = [LastBase EXCEPT
                       !.cmd = "list",
                       !.emails = r.emails,
                       !.internal = internal_of(r.emails),
                       !.external = external_of(r.emails),
                       !.out = IF r.exit THEN ExitOut(r.missing)
                               ELSE IF r.emails = <<>> THEN "no_emails"
                               ELSE "listing",
                       !.returned = ~r.exit,
                       !.exit_code = IF r.exit THEN 1 ELSE 0,
                       !.missing = r.missing,
                       !.constructed = r.constructed,
                       !.queries = r.queries]
  /\ UNCHANGED <<env, mailbox, order, bulk, folders>>

(***************************************************************************)
(* cmd_read                                                                *)
(***************************************************************************)
cmd_read(email_id, connect_ok) ==
  /\ Running
  /\ ncmds' = ncmds + 1
  /\ \E f \in {find_email_by_id(email_id, _emails_cache, _account, mailbox,
                                 connect_ok)} :
         /\ _account' = f.account
         /\ _emails_cache' = f.cache
         /\ status' = IF f.exit THEN "exited" ELSE "running"
         /\ last' = [LastBase EXCEPT
                       !.cmd = "read", !.mode = "single",
                       !.target = email_id,
                       !.lookups = <<Lookup(email_id, _emails_cache, f)>>,
                       !.out = IF f.exit THEN ExitOut(f.missing)
                               ELSE IF not_item(f) THEN "not_found"
                               ELSE "shown",
                       !.returned = ~f.exit,
                       !.exit_code = IF f.exit THEN 1 ELSE 0,
                       !.missing = f.missing,
                       !.constructed = f.constructed]
  /\ UNCHANGED <<env, mailbox, order, bulk, folders>>

(***************************************************************************)
(* cmd_reply: send_ok says whether item.reply(...) succeeds.  The reply    *)
(* sent is an output of the command: last.acted names the item replied to. *)
(***************************************************************************)
cmd_reply(email_id, send_ok, connect_ok) ==
  /\ Running
  /\ ncmds' = ncmds + 1
  /\ \E f \in {find_email_by_id(email_id, _emails_cache, _account, mailbox,
                                 connect_ok)} :
       LET sent == ~f.exit /\ ~not_item(f) /\ send_ok
       IN
         /\ _account' = f.account
         /\ _emails_cache' = f.cache
         /\ status' = IF f.exit THEN "exited" ELSE "running"
         /\ last' = [LastBase EXCEPT
                       !.cmd = "reply", !.mode = "single",
                       !.target = email_id,
                       !.lookups = <<Lookup(email_id, _emails_cache, f)>>,
                       !.acted = IF sent THEN <<f.ret>> ELSE <<>>,
                       !.out = IF f.exit THEN ExitOut(f.missing)
                               ELSE IF not_item(f) THEN "not_found"
                               ELSE IF send_ok THEN "reply_sent"
                               ELSE "send_error",
                       !.returned = ~f.exit,
                       !.exit_code = IF f.exit THEN 1 ELSE 0,
                       !.missing = f.missing,
                       !.constructed = f.constructed]
  /\ UNCHANGED <<env, mailbox, order, bulk, folders>>

(***************************************************************************)
(* cmd_mark_read.  bad holds the loop positions whose item.save(...)       *)
(* raises; nothing in cmd_mark_read catches it, so the exception ends the  *)
(* command and the process.                                                *)
(***************************************************************************)
\* item.is_read = True; item.save(update_fields=['is_read'])
set_read(mb, h) ==
  IF h \in DOMAIN mb THEN [mb EXCEPT ![h].is_read = TRUE] ELSE mb

\* The state the batch loops carry.
LoopStart(cache, acct, mb, constructed) ==
  [cache |-> cache, account |-> acct, mb |-> mb, count |-> 0, errors |-> 0,
   lookups |-> <<>>, acted |-> <<>>, exit |-> FALSE, raised |-> FALSE,
   missing |-> <<>>, constructed |-> constructed]

\* for e in emails: item = find_email_by_id(e['id']); if item: ... count += 1
RECURSIVE mark_read_loop(_, _, _, _, _)
mark_read_loop(emails, i, bad, connect_ok, st) ==
  IF i > Len(emails) THEN st
  ELSE LET f == find_email_by_id(emails[i].id, st.cache, st.account, st.mb,
                                 connect_ok)
           looked == [st EXCEPT !.cache = f.cache, !.account = f.account,
                                !.lookups = Append(@, Lookup(emails[i].id, st.cache, f)),
                                !.constructed = @ + f.constructed]
       IN  IF f.exit THEN [looked EXCEPT !.exit = TRUE, !.missing = f.missing]
           ELSE IF f.ret = NoItem
           THEN mark_read_loop(emails, i + 1, bad, connect_ok, looked)
           ELSE IF i \in bad THEN [looked EXCEPT !.raised = TRUE]
           ELSE mark_read_loop(emails, i + 1, bad, connect_ok,
                               [looked EXCEPT !.mb = set_read(@, f.ret),
                                              !.count = @ + 1,
                                              !.acted = Append(@, f.ret)])

\* How a command that went through get_account or a loop ended.
Ended(exit, raised, missing, normal) ==
  IF exit THEN ExitOut(missing) ELSE IF raised THEN "exception" ELSE normal

cmd_mark_read(mode, target, days, bad, connect_ok) ==
  /\ Running
  /\ ncmds' = ncmds + 1
  /\ IF mode \in {"external", "internal", "all"}
     THEN \E r \in {get_unread_emails(days, TRUE, _emails_cache, _account,
                                       mailbox, connect_ok)} :
          \E emails \in {batch_select(r.emails, mode)} :
          \E st \in {IF r.exit \/ emails = <<>>
                     THEN LoopStart(r.cache, r.account, mailbox, r.constructed)
                     ELSE mark_read_loop(emails, 1, bad, connect_ok,
                            LoopStart(r.cache, r.account, mailbox, r.constructed))} :
          LET ended == r.exit \/ st.exit \/ st.raised
          IN  /\ _account' = st.account
              /\ _emails_cache' = st.cache
              /\ mailbox' = st.mb
              /\ status' = IF ended THEN "exited" ELSE "running"
              /\ last' = [LastBase EXCEPT
                            !.cmd = "mark-read", !.mode = mode,
                            !.emails = r.emails,
                            !.selected = IF r.exit THEN <<>> ELSE emails,
                            !.lookups = st.lookups,
                            !.acted = st.acted,
                            !.count = st.count,
                            !.out = Ended(r.exit \/ st.exit, st.raised,
                                          IF r.exit THEN r.missing ELSE st.missing,
                                          IF emails = <<>> THEN "nothing_to_process"
                                          ELSE "batch_report"),
                            !.returned = ~ended,
                            !.exit_code = IF ended THEN 1 ELSE 0,
                            !.missing = IF r.exit THEN r.missing ELSE st.missing,
                            !.constructed = st.constructed,
                            !.queries = r.queries]
     ELSE IF mode = "single"
     THEN \E f \in {find_email_by_id(target, _emails_cache, _account, mailbox,
                                      connect_ok)} :
          LET found == ~f.exit /\ ~not_item(f)
              raised == found /\ 1 \in bad
              saved == found /\ ~raised
          IN  /\ _account' = f.account
              /\ _emails_cache' = f.cache
              /\ mailbox' = IF saved THEN set_read(mailbox, f.ret) ELSE mailbox
              /\ status' = IF f.exit \/ raised THEN "exited" ELSE "running"
              /\ last' = [LastBase EXCEPT
                            !.cmd = "mark-read", !.mode = mode,
                            !.target = target,
                            !.lookups = <<Lookup(target, _emails_cache, f)>>,
                            !.acted = IF saved THEN <<f.ret>> ELSE <<>>,
                            !.out = Ended(f.exit, raised, f.missing,
                                          IF not_item(f) THEN "not_found"
                                          ELSE "marked"),
                            !.returned = ~(f.exit \/ raised),
                            !.exit_code = IF f.exit \/ raised THEN 1 ELSE 0,
                            !.missing = f.missing,
                            !.constructed = f.constructed]
     ELSE /\ last' = [LastBase EXCEPT !.cmd = "mark-read", !.mode = mode,
                                      !.out = "usage"]
          /\ UNCHANGED <<_account, _emails_cache, mailbox, status>>
  /\ UNCHANGED <<env, order, bulk, folders>>

(***************************************************************************)
(* cmd_archive.  bad holds the loop positions whose item.move(...) raises. *)
(* account.trash raises when the mailbox has no deleted-items folder.      *)
(***************************************************************************)
\* folder.name.lower() of the folder names of the model
folder_lower(name) ==
  CASE name = "Inbox" -> "inbox"
    [] name = "Papierkorb" -> "papierkorb"
    [] name = "Archive" -> "archive"
    [] OTHER -> name
\* The ASCII names of the list the walk looks for (the list also holds the
\* two Russian names).
ArchiveNames == {"archive", "deleted items"}
\* The name of the deleted-items folder of the mailbox (account.trash).
TrashName == "Papierkorb"

\* The folder the command moves to: the first folder of the walk with a
\* listed name, else account.trash, else a new folder 'Archive'.
find_archive_folder(fs) ==
  LET Named(n) == folder_lower(n) \in ArchiveNames
      named == SelectSeq(fs, Named)
  IN  IF named # <<>>
      THEN [folder |-> Head(named), created |-> FALSE, folders |-> fs]
      ELSE IF InList(TrashName, fs)
      THEN [folder |-> TrashName, created |-> FALSE, folders |-> fs]
      ELSE [folder |-> "Archive", created |-> TRUE,
            folders |-> Append(fs, "Archive")]

\* item.move(archive_folder)
move(mb, h, archive_folder) ==
  IF h \in DOMAIN mb THEN [mb EXCEPT ![h].folder = archive_folder] ELSE mb

\* for e in emails: item = find_email_by_id(e['id']);
\*   if item: try: item.move(archive_folder); count += 1
\*            except Exception: errors += 1
RECURSIVE archive_loop(_, _, _, _, _, _)
archive_loop(emails, i, bad, archive_folder, connect_ok, st) ==
  IF i > Len(emails) THEN st
  ELSE LET f == find_email_by_id(emails[i].id, st.cache, st.account, st.mb,
                                 connect_ok)
           looked == [st EXCEPT !.cache = f.cache, !.account = f.account,
                                !.lookups = Append(@, Lookup(emails[i].id, st.cache, f)),
                                !.constructed = @ + f.constructed]
       IN  IF f.exit THEN [looked EXCEPT !.exit = TRUE, !.missing = f.missing]
           ELSE IF f.ret = NoItem
           THEN archive_loop(emails, i + 1, bad, archive_folder, connect_ok, looked)
           ELSE IF i \in bad
           THEN archive_loop(emails, i + 1, bad, archive_folder, connect_ok,
                             [looked EXCEPT !.errors = @ + 1])
           ELSE archive_loop(emails, i + 1, bad, archive_folder, connect_ok,
                             [looked EXCEPT
                                !.mb = move(@, f.ret, archive_folder),
                                !.count = @ + 1,
                                !.acted = Append(@, f.ret)])

cmd_archive(mode, target, days, bad, connect_ok) ==
  /\ Running
  /\ ncmds' = ncmds + 1
  /\ \E ga \in {get_account(_account, connect_ok)} :
     \E af \in {find_archive_folder(folders)} :
         IF ga.exit
         THEN /\ _account' = ga.account
              /\ status' = "exited"
              /\ last' = [LastBase EXCEPT
                            !.cmd = "archive", !.mode = mode,
                            !.target = target,
                            !.out = ExitOut(ga.missing),
                            !.returned = FALSE, !.exit_code = 1,
                            !.missing = ga.missing,
                            !.constructed = ga.constructed]
              /\ UNCHANGED <<_emails_cache, mailbox, folders>>
         ELSE IF mode \in {"external", "internal", "all"}
         THEN \E r \in {get_unread_emails(days, TRUE, _emails_cache, ga.account,
                                           mailbox, connect_ok)} :
              \E emails \in {batch_select(r.emails, mode)} :
              \E start \in {LoopStart(r.cache, r.account, mailbox,
                                      ga.constructed + r.constructed)} :
              \E st \in {IF emails = <<>> THEN start
                         ELSE archive_loop(emails, 1, bad, af.folder, connect_ok,
                                           start)} :
                  /\ _account' = st.account
                  /\ _emails_cache' = st.cache
                  /\ mailbox' = st.mb
                  /\ folders' = af.folders
                  /\ status' = IF st.exit THEN "exited" ELSE "running"
                  /\ last' = [LastBase EXCEPT
                                !.cmd = "archive", !.mode = mode,
                                !.emails = r.emails,
                                !.selected = emails,
                                !.lookups = st.lookups,
                                !.acted = st.acted,
                                !.count = st.count,
                                !.errors = st.errors,
                                !.out = Ended(st.exit, FALSE, st.missing,
                                              IF emails = <<>>
                                              THEN "nothing_to_process"
                                              ELSE "batch_report"),
                                !.returned = ~st.exit,
                                !.exit_code = IF st.exit THEN 1 ELSE 0,
                                !.missing = st.missing,
                                !.constructed = st.constructed,
                                !.queries = r.queries,
                                !.created_folder = af.created]
         ELSE IF mode = "single"
         THEN \E f \in {find_email_by_id(target, _emails_cache, ga.account,
                                          mailbox, connect_ok)} :
              LET found == ~f.exit /\ ~not_item(f)
                  moved == found /\ ~(1 \in bad)
              IN  /\ _account' = f.account
                  /\ _emails_cache' = f.cache
                  /\ mailbox' = IF moved THEN move(mailbox, f.ret, af.folder)
                                ELSE mailbox
                  /\ folders' = af.folders
                  /\ status' = IF f.exit THEN "exited" ELSE "running"
                  /\ last' = [LastBase EXCEPT
                                !.cmd = "archive", !.mode = mode,
                                !.target = target,
                                !.lookups = <<Lookup(target, _emails_cache, f)>>,
                                !.acted = IF moved THEN <<f.ret>> ELSE <<>>,
                                !.out = Ended(f.exit, FALSE, f.missing,
                                              IF not_item(f) THEN "not_found"
                                              ELSE IF moved THEN "archived"
                                              ELSE "archive_error"),
                                !.returned = ~f.exit,
                                !.exit_code = IF f.exit THEN 1 ELSE 0,
                                !.missing = f.missing,
                                !.constructed = ga.constructed + f.constructed,
                                !.created_folder = af.created]
         ELSE /\ _account' = ga.account
              /\ folders' = af.folders
              /\ last' = [LastBase EXCEPT !.cmd = "archive", !.mode = mode,
                                          !.out = "usage",
                                          !.constructed = ga.constructed,
                                          !.created_folder = af.created]
              /\ UNCHANGED <<_emails_cache, mailbox, status>>
  /\ UNCHANGED <<env, order, bulk>>

(***************************************************************************)
(* The initial states and the next-state relation.                         *)
(***************************************************************************)
Setting(v) == [set |-> TRUE, value |-> v]
NotSet == [set |-> FALSE, value |-> <<>>]
\* A complete configuration without EXCHANGE_DOMAIN.
ValidEnv ==
  [EXCHANGE_SERVER |-> Setting(<<"e","w","s">>),
   EXCHANGE_EMAIL |-> Setting(User_Corp),
   EXCHANGE_USERNAME |-> Setting(<<"u","s","e","r">>),
   EXCHANGE_PASSWORD |-> Setting(<<"p","w">>),
   EXCHANGE_DOMAIN |-> NotSet]

\* The orders (newest first) of up to MaxInbox distinct messages of Content.
Orders ==
  {o \in UNION {[1..n -> 1..Len(Content)] : n \in 1..MaxInbox} :
     \A i, j \in 1..Len(o) : i # j => o[i] # o[j]}
\* The received times of the messages of an order: consecutive slots, the
\* newest or the oldest that fit, so that later positions are older.
SlotsOf(o) ==
  {[i \in 1..Len(o) |-> first + i - 1] :
     first \in {1, Len(TimeSlots) - Len(o) + 1}}

InitCommon ==
  /\ _account = NoAccount
  /\ _emails_cache = <<>>
  /\ status = "running"
  /\ ncmds = 0
  /\ last = LastBase

Init ==
  /\ InitCommon
  /\ env = ValidEnv
  /\ order \in Orders
  /\ \E t \in SlotsOf(order) :
       mailbox = [h \in {order[i] : i \in 1..Len(order)} |->
                    Message(Content[h],
                            t[CHOOSE i \in 1..Len(order) : order[i] = h])]
  /\ bulk \in {0, ScanLimit - 1}
  /\ folders = <<"Inbox">>

Modes == {"external", "internal", "all", "single", "none"}
TargetsOf(mode) == IF mode = "single" THEN RequestIds ELSE {<<>>}
DaysOf(mode) == IF mode \in {"external", "internal", "all"} THEN DaysChoices ELSE {0}
\* A batch loop is no longer than the unread listing; a single command
\* operates once.
FailsOf(mode, days) ==
  IF mode = "none" THEN {{}}
  ELSE IF mode = "single" THEN FailChoices(1)
  ELSE FailChoices(Len(unread_query(mailbox, days)))

Next ==
  \/ \E days \in DaysChoices, show_all \in BOOLEAN, c \in ConnectChoices :
       cmd_list(days, show_all, c)
  \/ \E id \in RequestIds, c \in ConnectChoices : cmd_read(id, c)
  \/ \E id \in RequestIds, send_ok \in BOOLEAN, c \in ConnectChoices :
       cmd_reply(id, send_ok, c)
  \/ \E mode \in Modes, c \in ConnectChoices :
       \E target \in TargetsOf(mode), days \in DaysOf(mode) :
       \E bad \in FailsOf(mode, days) :
         cmd_mark_read(mode, target, days, bad, c)
  \/ \E mode \in Modes, c \in ConnectChoices :
       \E target \in TargetsOf(mode), days \in DaysOf(mode) :
       \E bad \in FailsOf(mode, days) :
         cmd_archive(mode, target, days, bad, c)

Spec == Init /\ [][Next]_vars

(***************************************************************************)
(* The configurations: every setting unset, set to the empty string, or    *)
(* set to a value, over a mailbox of one message.                          *)
(***************************************************************************)
SettingsOf(v) == {NotSet, Setting(<<>>), Setting(v)}

InitConfig ==
  /\ InitCommon
  /\ env \in [EXCHANGE_SERVER : SettingsOf(<<"e","w","s">>),
              EXCHANGE_EMAIL : SettingsOf(user_corp),
              EXCHANGE_USERNAME : SettingsOf(<<"u","s","e","r">>),
              EXCHANGE_PASSWORD : SettingsOf(<<"p","w">>),
              EXCHANGE_DOMAIN : SettingsOf(<<"C","O","R","P">>)]
  /\ order = <<1>>
  /\ mailbox = [h \in {1} |-> Message(Content[1], 1)]
  /\ bulk = 0
  /\ folders = <<"Inbox", TrashName>>

SpecConfig == InitConfig /\ [][Next]_vars

(***************************************************************************)
(* The listings of one message whose identity, sender and recipients are   *)
(* drawn from the cases the code tells apart, for an own address in lower  *)
(* case, in mixed case, or without '@'.                                    *)
(***************************************************************************)
OwnAddresses == {user_corp, User_Corp, nodomain}
Senders == {NoSender, Sender(<<>>), Sender(peer_corp), Sender(Peer_CORP),
            Sender(ext_other), Sender(x_notcorp), Sender(peer_corp_io)}
\* to_recipients: None or empty, the owner, someone else, and a recipient
\* without address before the owner in mixed case.
ToLists == {<<>>, <<user_corp>>, <<team_corp>>, <<<<>>, User_Corp>>}
CcLists == {<<>>, <<User_Corp>>, <<ext_other>>}
MessageIds == {None, "", "<m34781@corp.com>", "<b2@other.com>"}
ItemIds == {None, "AAMkAGI1", "AAMkAGI2"}
ReceivedTimes == {None, TimeSlots[1].str}

InitClassify ==
  /\ InitCommon
  /\ \E own \in OwnAddresses : env = [ValidEnv EXCEPT !.EXCHANGE_EMAIL = Setting(own)]
  /\ order = <<1>>
  /\ \E sender \in Senders, to \in ToLists, cc \in CcLists, mid \in MessageIds,
        iid \in ItemIds, received \in ReceivedTimes :
       mailbox = [h \in {1} |->
                    [message_id |-> mid, id |-> iid,
                     datetime_received |-> received, age |-> 0,
                     sender |-> sender,
                     to_recipients |-> to, cc_recipients |-> cc,
                     is_read |-> FALSE, folder |-> "Inbox"]]
  /\ bulk = 0
  /\ folders = <<"Inbox", TrashName>>

NextList ==
  \E days \in DaysChoices, show_all \in BOOLEAN, c \in ConnectChoices :
    cmd_list(days, show_all, c)

SpecClassify == InitClassify /\ [][NextList]_vars

(***************************************************************************)
(* Notions the properties are stated with.                                 *)
(***************************************************************************)
Range(seq) == {seq[i] : i \in 1..Len(seq)}
BatchModes == {"external", "internal", "all"}
HexDigits == {"0","1","2","3","4","5","6","7","8","9","a","b","c","d","e","f"}

\* The key a message's short id is a digest of: the message-id header if it
\* has one, else the protocol identifier if it has one, else the string form
\* of the received time.
SourceKey(m) ==
  IF m.message_id \notin {None, ""} THEN m.message_id
  ELSE IF m.id \notin {None, ""} THEN m.id
  ELSE IF m.datetime_received = None THEN "None"
  ELSE m.datetime_received
\* The first eight hex digits of the MD5 of that key.
RefId(m) == [j \in 1..8 |-> md5_hexdigest(SourceKey(m))[j]]

\* The account's own address and, lower-cased, its part from the '@' on.
OwnAddress == env["EXCHANGE_EMAIL"].value
OwnDomainSuffix ==
  IF \E i \in 1..Len(OwnAddress) : OwnAddress[i] = "@"
  THEN Lower(SubSeq(OwnAddress,
                    CHOOSE i \in 1..Len(OwnAddress) :
                      OwnAddress[i] = "@" /\ \A j \in 1..(i-1) : OwnAddress[j] # "@",
                    Len(OwnAddress)))
  ELSE <<>>
\* The owner is among the to and cc recipients of m, whatever the case.
DirectRef(m) ==
  \E r \in Range(m.to_recipients) \cup Range(m.cc_recipients) :
    r # <<>> /\ Lower(r) = Lower(OwnAddress)
\* The sender address of m is some prefix followed by the owner's domain.
InternalRef(m) ==
  /\ m.sender.exists
  /\ m.sender.email_address # <<>>
  /\ OwnDomainSuffix # <<>>
  /\ \E n \in 0..Len(m.sender.email_address) :
       Lower(m.sender.email_address)
         = SubSeq(Lower(m.sender.email_address), 1, n) \o OwnDomainSuffix

\* The inbox messages of the re-scan window that are newer than h.
NewerInWindow(h) ==
  IF h < 0 THEN {-i : i \in 1..(-h - 1)}
  ELSE {-i : i \in 1..bulk}
         \cup {order[k] : k \in {k \in 1..Len(order) :
                 /\ \E n \in 1..Len(order) : order[n] = h /\ k < n
                 /\ mailbox[order[k]].folder = "Inbox"
                 /\ mailbox[order[k]].age < 7}}

(***************************************************************************)
(* The properties.                                                         *)
(***************************************************************************)
\* C1: a find_email_by_id call whose id is a key of the cache returns the
\* cached item without any network query: it does not call get_account, does
\* not construct an Account, issues no listing query, scans nothing, and
\* leaves the cache as it was.
C1_CachedLookupNoQuery ==
  \A i \in 1..Len(last.lookups) :
    LET L == last.lookups[i]
    IN  L.in_cache =>
          /\ ~L.exit
          /\ L.ret = L.cached
          /\ L.ret # NoItem
          /\ L.account_calls = 0
          /\ L.constructed = 0
          /\ L.queries = 0
          /\ L.scanned = <<>>
          /\ L.cache_unchanged
\* A read answered from the cache an earlier command filled.
C1_Witness ==
  /\ last.cmd = "read"
  /\ last.out = "shown"
  /\ last.lookups # <<>>
  /\ last.lookups[1].in_cache

\* C2: a find_email_by_id call whose id is no key of the cache, and that
\* returns, has issued exactly one listing query; the items it went through
\* are at most 100, all of the last 7 days, and no newer inbox message of
\* that window was left out; it returns None exactly when none of them
\* derives the id, and an item it returns derives the id.
C2_MissRescansOnce ==
  \A i \in 1..Len(last.lookups) :
    LET L == last.lookups[i]
    IN  (~L.in_cache /\ ~L.exit) =>
          /\ L.queries = 1
          /\ Len(L.scanned) <= 100
          /\ \A h \in Range(L.scanned) :
               /\ Msg(h).age < 7
               /\ NewerInWindow(h) \subseteq Range(L.scanned)
          /\ (L.ret = NoItem) =
               (\A h \in Range(L.scanned) : RefId(Msg(h)) # L.email_id)
          /\ L.ret # NoItem =>
               /\ L.ret \in Range(L.scanned)
               /\ RefId(Msg(L.ret)) = L.email_id
\* A read that misses after a re-scan of a full window of 100 items.
C2_Witness ==
  /\ last.cmd = "read"
  /\ last.out = "not_found"
  /\ last.lookups # <<>>
  /\ ~last.lookups[1].in_cache
  /\ Len(last.lookups[1].scanned) = 100

\* C3: a batch mark-read or archive that selected messages ends with its
\* report whatever per-message operation failed: every selected message was
\* looked up, and the success count plus the error tally is the number of
\* selected messages that were resolved.
C3_BatchFailureTallied ==
  ( /\ last.cmd \in {"mark-read", "archive"}
    /\ last.mode \in BatchModes
    /\ last.selected # <<>>
    /\ last.out \notin {"config_error", "connect_error"} )
  => /\ last.returned
     /\ last.out = "batch_report"
     /\ Len(last.lookups) = Len(last.selected)
     /\ last.count + last.errors
          = Cardinality({i \in 1..Len(last.lookups) : last.lookups[i].ret # NoItem})

\* The required settings that are unset or empty.
MissingNames ==
  {n \in {"EXCHANGE_SERVER", "EXCHANGE_EMAIL", "EXCHANGE_USERNAME",
          "EXCHANGE_PASSWORD"} : ~(env[n].set /\ Len(env[n].value) > 0)}

\* C4: with a required setting unset or empty, a command that reaches
\* get_account ends the process with exit status 1 after reporting exactly
\* the missing names, once each; no Account was constructed, the handle is
\* unset and no query was made.  With the four required settings given there
\* is no such report, whatever EXCHANGE_DOMAIN is.
C4_MissingSettingsFatal ==
  /\ (MissingNames # {} /\ last.cmd # "start" /\ last.out # "usage") =>
       /\ status = "exited"
       /\ ~last.returned
       /\ last.exit_code = 1
       /\ last.out = "config_error"
       /\ Range(last.missing) = MissingNames
       /\ Len(last.missing) = Cardinality(MissingNames)
       /\ last.constructed = 0
       /\ ~_account.open
       /\ last.queries = 0
       /\ \A i \in 1..Len(last.lookups) : last.lookups[i].queries = 0
  /\ MissingNames = {} => (last.out # "config_error" /\ last.missing = <<>>)
\* Two settings are missing and both were reported.
C4_Witness ==
  /\ Cardinality(MissingNames) = 2
  /\ last.out = "config_error"
  /\ Len(last.missing) = 2

\* C5: a read, reply, mark-read or archive of one id whose lookup returns
\* None prints the not-found message and returns normally (exit status 0,
\* the process goes on); it replies to, saves and moves no message.
C5_MissIsNormal ==
  [][ ( /\ last'.mode = "single"
        /\ last'.lookups # <<>>
        /\ ~last'.lookups[1].exit
        /\ last'.lookups[1].ret = NoItem )
      => ( /\ last'.out = "not_found"
           /\ last'.returned
           /\ last'.exit_code = 0
           /\ status' = "running"
           /\ last'.acted = <<>>
           /\ mailbox' = mailbox ) ]_vars
\* An archive of an id that is not found.
C5_Witness ==
  /\ last.cmd = "archive"
  /\ last.mode = "single"
  /\ last.out = "not_found"

\* C6: every listed summary has is_direct true exactly when the owner's
\* address is among the to and cc addresses (case ignored), and is_internal
\* true exactly when the sender's address ends with the owner's domain
\* suffix (case ignored); without recipients, without sender address or
\* without an own domain they are false.
C6_Classification ==
  \A e \in Range(last.emails) :
    /\ e.is_direct = DirectRef(Msg(e.src))
    /\ e.is_internal = InternalRef(Msg(e.src))
\* A message of a colleague to the owner was listed as internal and direct.
C6_Witness ==
  \E e \in Range(last.emails) :
    /\ e.is_internal /\ e.is_direct
    /\ Msg(e.src).sender.email_address = Peer_CORP

\* C7: the id of every listed summary is the first 8 hex digits of the MD5
\* of the message-id header if present, else of the protocol identifier if
\* present, else of the string form of the received time; it has exactly 8
\* hexadecimal characters, deriving it again gives the same value, and it
\* is the key the cache holds.
C7_ShortIdDerivation ==
  \A e \in Range(last.emails) :
    /\ Len(e.id) = 8
    /\ \A j \in 1..Len(e.id) : e.id[j] \in HexDigits
    /\ e.id = RefId(Msg(e.src))
    /\ e.id = generate_email_id(Msg(e.src))
    /\ e.id \in DOMAIN _emails_cache
\* A listed message without message-id header and protocol identifier.
C7_Witness ==
  \E e \in Range(last.emails) :
    /\ Msg(e.src).message_id = ""
    /\ Msg(e.src).id = None
    /\ Msg(e.src).datetime_received # None

\* C8: on every listing, the --internal and --external selections are
\* disjoint and their union is the --all selection, which is the listing; a
\* message is on the internal side exactly when its own sender is internal;
\* and the commands selected and printed these very groups.
C8_BatchPartition ==
  LET em == last.emails
      int == Range(batch_select(em, "internal"))
      ext == Range(batch_select(em, "external"))
      all == Range(batch_select(em, "all"))
  IN  /\ int \cap ext = {}
      /\ int \cup ext = all
      /\ all = Range(em)
      /\ \A e \in all : (e \in int) = InternalRef(Msg(e.src))
      /\ (last.cmd \in {"mark-read", "archive"} /\ last.mode \in BatchModes) =>
           Range(last.selected) = (IF last.mode = "internal" THEN int
                                   ELSE IF last.mode = "external" THEN ext
                                   ELSE all)
      /\ last.cmd = "list" =>
           (Range(last.internal) = int /\ Range(last.external) = ext)
\* An --external batch over a listing with an external message before an
\* internal one.
C8_Witness ==
  /\ last.mode = "external"
  /\ \E i, j \in 1..Len(last.emails) :
       i < j /\ ~last.emails[i].is_internal /\ last.emails[j].is_internal
  /\ Len(last.selected) < Len(last.emails)

\* The items the last command listed or went through in a re-scan.
Written ==
  {last.emails[i].src : i \in 1..Len(last.emails)}
    \cup UNION {Range(last.lookups[i].scanned) : i \in 1..Len(last.lookups)}
\* Every entry maps a short id to a message deriving it.
C9_KeysDerive ==
  \A k \in DOMAIN _emails_cache : RefId(Msg(_emails_cache[k])) = k
\* A step removes no key, and an entry that is new or changed holds an item
\* the command listed or scanned.
C9_Step ==
  /\ DOMAIN _emails_cache \subseteq DOMAIN _emails_cache'
  /\ \A k \in DOMAIN _emails_cache' :
       \/ k \in DOMAIN _emails_cache /\ _emails_cache'[k] = _emails_cache[k]
       \/ _emails_cache'[k] \in Written'
\* C9: over any sequence of commands the cache only grows or overwrites: no
\* key is ever removed, a command changes only the entries of the short ids
\* it records, and every entry maps a short id to a message whose derived
\* short id is that key.
C9_CacheOnlyGrows == []C9_KeysDerive /\ [][C9_Step]_vars
\* A second command's re-scan wrote to a cache that holds several entries.
C9_Witness ==
  /\ ncmds = 2
  /\ last.lookups # <<>>
  /\ ~last.lookups[1].in_cache
  /\ ~last.lookups[1].cache_unchanged
  /\ Cardinality(DOMAIN _emails_cache) >= 2

\* C10: in a batch mark-read or archive that ends with its report, every
\* selected message is resolved from the cache, without a re-scan, to the
\* very message its summary was made from.
C10_BatchResolvesOwnMessage ==
  ( /\ last.cmd \in {"mark-read", "archive"}
    /\ last.mode \in BatchModes
    /\ last.out = "batch_report" )
  => \A i \in 1..Len(last.lookups) :
       /\ last.lookups[i].in_cache
       /\ last.lookups[i].queries = 0
       /\ last.lookups[i].ret = last.selected[i].src

====
